---- MODULE Spec2Model ----
(***************************************************************************)
(* Model of the bank-account application workflow of src/generated/code.py *)
(* (BankAccountApplication, PersonalDetailsData, DocumentData, Validator,  *)
(* ValidationResult).                                                      *)
(*                                                                         *)
(* A Python str is a sequence of one-character strings, so that the        *)
(* regular expressions and strptime can be computed character by           *)
(* character.  A Python dict is a function whose DOMAIN is its key set.    *)
(* A date is a tuple <<year, month, day>>.                                 *)
(***************************************************************************)
EXTENDS Integers, Sequences, FiniteSets, TLC

\* ------------------------------------------------------------------------
\* Constants and configurations (code.py lines 13-15)
\* ------------------------------------------------------------------------
MAX_FILE_SIZE_MB == 5

ACCEPTED_DOCUMENT_TYPES == <<"image/jpeg", "image/png", "application/pdf">>

\* Python's None.
None == [none |-> TRUE]

\* ------------------------------------------------------------------------
\* Characters
\* ------------------------------------------------------------------------
DigitValue == [c \in {"0", "1", "2", "3", "4", "5", "6", "7", "8", "9"} |->
                 CASE c = "0" -> 0 [] c = "1" -> 1 [] c = "2" -> 2
                   [] c = "3" -> 3 [] c = "4" -> 4 [] c = "5" -> 5
                   [] c = "6" -> 6 [] c = "7" -> 7 [] c = "8" -> 8
                   [] c = "9" -> 9]

\* \d of the re module (ASCII part).
IsDigit(c) == c \in DOMAIN DigitValue

\* \s of the re module: the ASCII whitespace characters a TLA+ string can spell.
IsSpace(c) == c \in {" ", "\t", "\n", "\r", "\f"}

\* ------------------------------------------------------------------------
\* ValidationResult (code.py lines 19-36)
\* ------------------------------------------------------------------------
\* ValidationResult(): is_valid = True, errors = {}
NewValidationResult == [is_valid |-> TRUE, errors |-> <<>>]

\* Bug: the result stays valid after an error is recorded.
add_error_KeepsValid(result, field, message) ==
    [is_valid |-> result.is_valid,
     errors   |-> IF field \in DOMAIN result.errors
                    THEN [result.errors EXCEPT ![field] = Append(@, message)]
                    ELSE (field :> <<message>>) @@ result.errors]

\* ValidationResult.add_error
add_error(result, field, message) ==
    [is_valid |-> FALSE,
     errors   |-> IF field \in DOMAIN result.errors
                    THEN [result.errors EXCEPT ![field] = Append(@, message)]
                    ELSE (field :> <<message>>) @@ result.errors]

\* Bug: the test of the lookup is inverted.
errors_get_truthy_Inverted(result, field) ==
    ~(field \in DOMAIN result.errors /\ Len(result.errors[field]) > 0)

\* result.errors.get(field): the list, or None (falsy) when the key is absent.
\* Its truth value is all the code uses.
errors_get_truthy(result, field) ==
    field \in DOMAIN result.errors /\ Len(result.errors[field]) > 0

\* dict.update: keys of other replace keys of errors.
dict_update(errors, other) ==
    [k \in DOMAIN errors \cup DOMAIN other |->
        IF k \in DOMAIN other THEN other[k] ELSE errors[k]]

\* ------------------------------------------------------------------------
\* datetime.strptime(s, "%Y-%m-%d").date() and date comparison
\* ------------------------------------------------------------------------
ValueError == [raised |-> "ValueError"]

IsLeap(y) == (y % 4 = 0 /\ y % 100 # 0) \/ y % 400 = 0

DaysInMonth(y, m) ==
    IF m = 2 THEN (IF IsLeap(y) THEN 29 ELSE 28)
    ELSE IF m \in {4, 6, 9, 11} THEN 30 ELSE 31

\* %m is matched by 1[0-2]|0[1-9]|[1-9]; the value, or 0 when no match.
MonthToken(t) ==
    IF Len(t) = 2 /\ t[1] = "1" /\ t[2] \in {"0", "1", "2"}
      THEN 10 + DigitValue[t[2]]
    ELSE IF Len(t) = 2 /\ t[1] = "0" /\ IsDigit(t[2]) /\ t[2] # "0"
      THEN DigitValue[t[2]]
    ELSE IF Len(t) = 1 /\ IsDigit(t[1]) /\ t[1] # "0"
      THEN DigitValue[t[1]]
    ELSE 0

\* %d is matched by 3[0-1]|[1-2]\d|0[1-9]|[1-9]| [1-9]; the value, or 0.
DayToken(t) ==
    IF Len(t) = 2 /\ t[1] = "3" /\ t[2] \in {"0", "1"}
      THEN 30 + DigitValue[t[2]]
    ELSE IF Len(t) = 2 /\ t[1] \in {"1", "2"} /\ IsDigit(t[2])
      THEN 10 * DigitValue[t[1]] + DigitValue[t[2]]
    ELSE IF Len(t) = 2 /\ t[1] \in {"0", " "} /\ IsDigit(t[2]) /\ t[2] # "0"
      THEN DigitValue[t[2]]
    ELSE IF Len(t) = 1 /\ IsDigit(t[1]) /\ t[1] # "0"
      THEN DigitValue[t[1]]
    ELSE 0

\* The date <<y, m, d>>, or ValueError when the string does not match the
\* format, has unconverted data, or names no calendar day.
strptime(s) ==
    IF Len(s) < 8 \/ Len(s) > 10 THEN ValueError
    ELSE IF ~ (\A i \in 1..4 : IsDigit(s[i])) \/ s[5] # "-" THEN ValueError
    ELSE LET dash == IF s[7] = "-" THEN 7 ELSE 8
             y == 1000 * DigitValue[s[1]] + 100 * DigitValue[s[2]]
                  + 10 * DigitValue[s[3]] + DigitValue[s[4]]
         IN  IF Len(s) <= dash \/ s[dash] # "-" THEN ValueError
             ELSE LET m == MonthToken(SubSeq(s, 6, dash - 1))
                      d == DayToken(SubSeq(s, dash + 1, Len(s)))
                  IN  IF m = 0 \/ d = 0 \/ y = 0 THEN ValueError
                      ELSE IF d > DaysInMonth(y, m) THEN ValueError
                      ELSE <<y, m, d>>

\* date.__gt__
DateAfter(a, b) ==
    \/ a[1] > b[1]
    \/ a[1] = b[1] /\ a[2] > b[2]
    \/ a[1] = b[1] /\ a[2] = b[2] /\ a[3] > b[3]

\* ------------------------------------------------------------------------
\* Validator (code.py lines 38-60)
\* ------------------------------------------------------------------------
\* re.match(r"[^@]+@[^@]+\.[^@]+", email): a prefix of email matches.
is_valid_email(email) ==
    \E i \in 2..Len(email) :
        /\ email[i] = "@"
        /\ \A j \in 1..(i - 1) : email[j] # "@"
        /\ \E k \in (i + 2)..(Len(email) - 1) :
              /\ email[k] = "."
              /\ \A j \in (i + 1)..(k - 1) : email[j] # "@"
              /\ email[k + 1] # "@"

\* Bug: a date equal to today counts as a future date.
is_future_date_NotBefore(dt_str, today) ==
    LET input_date == strptime(dt_str)
    IN  IF input_date = ValueError THEN TRUE
        ELSE ~DateAfter(today, input_date)

\* Validator.is_future_date with date.today() = today.
is_future_date(dt_str, today) ==
    LET input_date == strptime(dt_str)
    IN  IF input_date = ValueError THEN TRUE
        ELSE DateAfter(input_date, today)

\* One character of the class [\d\s-].
PhoneChar(c) == IsDigit(c) \/ IsSpace(c) \/ c = "-"

\* re.match(r"^\+?[\d\s-]{7,15}$", phone_number); $ also matches just
\* before a newline that ends the string.
is_valid_phone(phone_number) ==
    LET body == IF Len(phone_number) > 0 /\ phone_number[1] = "+"
                  THEN Tail(phone_number) ELSE phone_number
        Run(t) == Len(t) >= 7 /\ Len(t) <= 15
                  /\ \A i \in 1..Len(t) : PhoneChar(t[i])
    IN  \/ Run(body)
        \/ /\ Len(body) > 0
           /\ body[Len(body)] = "\n"
           /\ Run(SubSeq(body, 1, Len(body) - 1))

\* ------------------------------------------------------------------------
\* PersonalDetailsData (code.py lines 64-119)
\* ------------------------------------------------------------------------
\* PersonalDetailsData.__init__: the five fields as given.
PersonalDetailsData(full_name, date_of_birth, residential_address, email, phone_number) ==
    [full_name           |-> full_name,
     date_of_birth       |-> date_of_birth,
     residential_address |-> residential_address,
     email               |-> email,
     phone_number        |-> phone_number]

\* Bug: the empty string is not seen as missing.
Falsy_OnlyNone(s) == FALSE

\* "not s" for a str.
Falsy(s) == Len(s) = 0

\* PersonalDetailsData.validate, with date.today() = today.
PersonalDetailsData_validate(self, today) ==
    LET r0 == NewValidationResult
        \* Mandatory fields
        r1 == IF Falsy(self.full_name)
                THEN add_error(r0, "full_name", "Full Name is mandatory.")
                ELSE r0
        r2 == IF Falsy(self.date_of_birth)
                THEN add_error(r1, "date_of_birth", "Date of Birth is mandatory.")
                ELSE r1
        r3 == IF Falsy(self.residential_address)
                THEN add_error(r2, "residential_address",
                               "Residential Address is mandatory.")
                ELSE r2
        r4 == IF Falsy(self.email)
                THEN add_error(r3, "email", "Email is mandatory.")
                ELSE r3
        r5 == IF Falsy(self.phone_number)
                THEN add_error(r4, "phone_number", "Phone Number is mandatory.")
                ELSE r4
        \* Format validations (only if field is not already missing)
        r6 == IF ~Falsy(self.date_of_birth)
                 /\ ~errors_get_truthy(r5, "date_of_birth")
                THEN IF strptime(self.date_of_birth) = ValueError
                       THEN add_error(r5, "date_of_birth",
                              "Invalid date of birth format. Please use YYYY-MM-DD.")
                     ELSE IF is_future_date(self.date_of_birth, today)
                       THEN add_error(r5, "date_of_birth",
                              "Date of birth cannot be in the future.")
                     ELSE r5
                ELSE r5
        r7 == IF ~Falsy(self.email) /\ ~errors_get_truthy(r6, "email")
                THEN IF ~is_valid_email(self.email)
                       THEN add_error(r6, "email",
                              "Please enter a valid email address.")
                       ELSE r6
                ELSE r6
        r8 == IF ~Falsy(self.phone_number)
                 /\ ~errors_get_truthy(r7, "phone_number")
                THEN IF ~is_valid_phone(self.phone_number)
                       THEN add_error(r7, "phone_number",
                              "Please enter a valid phone number.")
                       ELSE r7
                ELSE r7
    IN  r8

\* Bug: the email entry is filled from the phone number.
PersonalDetailsData_to_dict_Swapped(self) ==
    [full_name           |-> self.full_name,
     date_of_birth       |-> self.date_of_birth,
     residential_address |-> self.residential_address,
     email               |-> self.phone_number,
     phone_number        |-> self.phone_number]

\* PersonalDetailsData.to_dict
PersonalDetailsData_to_dict(self) ==
    [full_name           |-> self.full_name,
     date_of_birth       |-> self.date_of_birth,
     residential_address |-> self.residential_address,
     email               |-> self.email,
     phone_number        |-> self.phone_number]

\* ------------------------------------------------------------------------
\* DocumentData (code.py lines 121-149)
\* ------------------------------------------------------------------------
\* DocumentData(**file_data); content defaults to None.
DocumentData(file_data) ==
    [filename     |-> file_data.filename,
     content_type |-> file_data.content_type,
     size_bytes   |-> file_data.size_bytes,
     content      |-> None]

\* The f-string of the file type message.
FileTypeMessage(content_type) ==
    "File type '" \o content_type
        \o "' is not allowed. Accepted types: jpeg, png, pdf."

FileSizeMessage == "File exceeds the maximum size limit of 5MB."

\* Bug: the size is looked at only when the type is allowed.
DocumentData_validate_Elif(self, field_name) ==
    LET r0 == NewValidationResult
    IN  IF ~(\E i \in 1..Len(ACCEPTED_DOCUMENT_TYPES) :
                ACCEPTED_DOCUMENT_TYPES[i] = self.content_type)
          THEN add_error(r0, field_name, FileTypeMessage(self.content_type))
        ELSE IF self.size_bytes > MAX_FILE_SIZE_MB * 1024 * 1024
          THEN add_error(r0, field_name, FileSizeMessage)
        ELSE r0

\* Bug: a file of exactly the maximum size is turned away.
DocumentData_validate_AtLeast(self, field_name) ==
    LET r0 == NewValidationResult
        r1 == IF ~(\E i \in 1..Len(ACCEPTED_DOCUMENT_TYPES) :
                      ACCEPTED_DOCUMENT_TYPES[i] = self.content_type)
                THEN add_error(r0, field_name, FileTypeMessage(self.content_type))
                ELSE r0
        r2 == IF self.size_bytes >= MAX_FILE_SIZE_MB * 1024 * 1024
                THEN add_error(r1, field_name, FileSizeMessage)
                ELSE r1
    IN  r2

\* DocumentData.validate
DocumentData_validate(self, field_name) ==
    LET r0 == NewValidationResult
        r1 == IF ~(\E i \in 1..Len(ACCEPTED_DOCUMENT_TYPES) :
                      ACCEPTED_DOCUMENT_TYPES[i] = self.content_type)
                THEN add_error(r0, field_name, FileTypeMessage(self.content_type))
                ELSE r0
        r2 == IF self.size_bytes > MAX_FILE_SIZE_MB * 1024 * 1024
                THEN add_error(r1, field_name, FileSizeMessage)
                ELSE r1
    IN  r2

\* Bug: the size is left out of the dictionary form.
DocumentData_to_dict_NoSize(self) ==
    [filename     |-> self.filename,
     content_type |-> self.content_type]

\* DocumentData.to_dict
DocumentData_to_dict(self) ==
    [filename     |-> self.filename,
     content_type |-> self.content_type,
     size_bytes   |-> self.size_bytes]

\* ------------------------------------------------------------------------
\* BankAccountApplication (code.py lines 153-268)
\* ------------------------------------------------------------------------
\* The ordered steps of the workflow.
Steps == <<"personal_details", "id_verification", "review_and_submit">>

\* The place of a step in the order.
StepIndex(step) == CHOOSE i \in 1..Len(Steps) : Steps[i] = step

\* BankAccountApplication.__init__
NewApplication ==
    [current_step              |-> "personal_details",
     personal_details_data     |-> None,
     primary_id_document       |-> None,
     proof_of_address_document |-> None,
     secure_storage            |-> [personal_details |-> <<>>,
                                    documents        |-> <<>>]]

\* What a call to _securely_store_data can do: return normally, or raise
\* before or after the assignment to the dictionary.  The code as written
\* only returns normally; the other outcomes are those of a store that fails.
StoreFailures == {"raise_before_write", "raise_after_write"}

StoreOutcomes == {"stored"} \cup StoreFailures

\* Bug: every write goes to the same key.
securely_store_data_FixedKey(self, key, data, outcome) ==
    [self   |-> IF outcome = "raise_before_write" THEN self
                ELSE [self EXCEPT !.secure_storage["personal_details"] = data],
     raised |-> outcome # "stored"]

\* BankAccountApplication._securely_store_data
securely_store_data(self, key, data, outcome) ==
    [self   |-> IF outcome = "raise_before_write" THEN self
                ELSE [self EXCEPT !.secure_storage[key] = data],
     raised |-> outcome # "stored"]

\* The exception that leaves a handler when the store write raises.
StoreError == [raised |-> "StoreError"]

\* The value of a handler is the instance after the call, what the call
\* returned (or raised), and whether a validate() was run.

\* Bug: the step after personal details is the last one.
submit_personal_details_accepted_Skips(self, details, outcome) ==
    LET s1 == [self EXCEPT !.personal_details_data = details]
        st == securely_store_data(s1, "personal_details",
                  PersonalDetailsData_to_dict(details), outcome)
        s2 == [st.self EXCEPT !.current_step = "review_and_submit"]
    IN  IF st.raised
          THEN [self |-> st.self, validated |-> TRUE, result |-> StoreError]
          ELSE [self      |-> s2,
                validated |-> TRUE,
                result    |->
                  [success   |-> TRUE,
                   message   |-> "Personal details successfully submitted.",
                   next_step |-> s2.current_step]]

\* submit_personal_details, the branch validation_result.is_valid
submit_personal_details_accepted(self, details, outcome) ==
    LET s1 == [self EXCEPT !.personal_details_data = details]
        st == securely_store_data(s1, "personal_details",
                  PersonalDetailsData_to_dict(details), outcome)
        s2 == [st.self EXCEPT !.current_step = "id_verification"]
    IN  IF st.raised
          THEN [self |-> st.self, validated |-> TRUE, result |-> StoreError]
          ELSE [self      |-> s2,
                validated |-> TRUE,
                result    |->
                  [success   |-> TRUE,
                   message   |-> "Personal details successfully submitted.",
                   next_step |-> s2.current_step]]

\* Bug: the rejected details are kept in the instance.
submit_personal_details_rejected_Keeps(self, details, validation_result) ==
    [self      |-> [self EXCEPT !.personal_details_data = details],
     validated |-> TRUE,
     result    |-> [success      |-> FALSE,
                    errors       |-> validation_result.errors,
                    current_step |-> self.current_step]]

\* Bug: the rejected details are saved as a draft in the secure storage.
submit_personal_details_rejected_Stores(self, details, validation_result) ==
    [self      |-> [self EXCEPT !.secure_storage["personal_details"] =
                                   PersonalDetailsData_to_dict(details)],
     validated |-> TRUE,
     result    |-> [success      |-> FALSE,
                    errors       |-> validation_result.errors,
                    current_step |-> self.current_step]]

\* submit_personal_details, the else branch
submit_personal_details_rejected(self, details, validation_result) ==
    [self      |-> self,
     validated |-> TRUE,
     result    |-> [success      |-> FALSE,
                    errors       |-> validation_result.errors,
                    current_step |-> self.current_step]]

\* Bug: the check of the current step is missing.
submit_personal_details_NoStepCheck(self, args, today, outcome) ==
    LET details == PersonalDetailsData(args.full_name, args.date_of_birth,
                       args.residential_address, args.email,
                       args.phone_number)
        validation_result == PersonalDetailsData_validate(details, today)
    IN  IF validation_result.is_valid
          THEN submit_personal_details_accepted(self, details, outcome)
          ELSE submit_personal_details_rejected(self, details,
                                                validation_result)

\* BankAccountApplication.submit_personal_details
submit_personal_details(self, args, today, outcome) ==
    IF self.current_step # "personal_details"
      THEN [self      |-> self,
            validated |-> FALSE,
            result    |-> [success |-> FALSE,
                           errors  |-> [application_flow |->
                              "Currently on step: " \o self.current_step
                              \o ". Cannot submit personal details."]]]
    ELSE LET details == PersonalDetailsData(args.full_name, args.date_of_birth,
                            args.residential_address, args.email,
                            args.phone_number)
             validation_result == PersonalDetailsData_validate(details, today)
         IN  IF validation_result.is_valid
               THEN submit_personal_details_accepted(self, details, outcome)
               ELSE submit_personal_details_rejected(self, details,
                                                     validation_result)

\* Bug: the combined result is that of the last document only.
combine_document_validations_LastOnly(primary_id, proof_of_address) ==
    LET c0 == NewValidationResult
        proof_of_address_validation ==
            DocumentData_validate(proof_of_address, "proof_of_address_document")
    IN  IF ~proof_of_address_validation.is_valid
          THEN [is_valid |-> FALSE,
                errors   |-> dict_update(c0.errors,
                                         proof_of_address_validation.errors)]
          ELSE c0

\* upload_identity_documents, the building of combined_validation_result
combine_document_validations(primary_id, proof_of_address) ==
    LET c0 == NewValidationResult
        primary_id_validation ==
            DocumentData_validate(primary_id, "primary_id_document")
        c1 == IF ~primary_id_validation.is_valid
                THEN [is_valid |-> FALSE,
                      errors   |-> dict_update(c0.errors,
                                               primary_id_validation.errors)]
                ELSE c0
        proof_of_address_validation ==
            DocumentData_validate(proof_of_address, "proof_of_address_document")
    IN  IF ~proof_of_address_validation.is_valid
          THEN [is_valid |-> FALSE,
                errors   |-> dict_update(c1.errors,
                                         proof_of_address_validation.errors)]
          ELSE c1

\* Bug: the accepted upload reports success and leaves the step as it is.
upload_identity_documents_accepted_Stays(self, primary_id, proof_of_address, outcome) ==
    LET s1 == [self EXCEPT !.primary_id_document = primary_id,
                           !.proof_of_address_document = proof_of_address]
        st == securely_store_data(s1, "documents",
                  [primary_id       |-> DocumentData_to_dict(primary_id),
                   proof_of_address |-> DocumentData_to_dict(proof_of_address)],
                  outcome)
    IN  IF st.raised
          THEN [self |-> st.self, validated |-> TRUE, result |-> StoreError]
          ELSE [self      |-> st.self,
                validated |-> TRUE,
                result    |->
                  [success   |-> TRUE,
                   message   |-> "Documents uploaded successfully. Proceeding to review.",
                   next_step |-> st.self.current_step]]

\* upload_identity_documents, the branch combined_validation_result.is_valid
upload_identity_documents_accepted(self, primary_id, proof_of_address, outcome) ==
    LET s1 == [self EXCEPT !.primary_id_document = primary_id,
                           !.proof_of_address_document = proof_of_address]
        st == securely_store_data(s1, "documents",
                  [primary_id       |-> DocumentData_to_dict(primary_id),
                   proof_of_address |-> DocumentData_to_dict(proof_of_address)],
                  outcome)
        s2 == [st.self EXCEPT !.current_step = "review_and_submit"]
    IN  IF st.raised
          THEN [self |-> st.self, validated |-> TRUE, result |-> StoreError]
          ELSE [self      |-> s2,
                validated |-> TRUE,
                result    |->
                  [success   |-> TRUE,
                   message   |-> "Documents uploaded successfully. Proceeding to review.",
                   next_step |-> s2.current_step]]

\* Bug: the rejection reports the step after the current one.
upload_identity_documents_rejected_NextStep(self, combined_validation_result) ==
    [self      |-> self,
     validated |-> TRUE,
     result    |-> [success      |-> FALSE,
                    errors       |-> combined_validation_result.errors,
                    current_step |-> "review_and_submit"]]

\* upload_identity_documents, the else branch
upload_identity_documents_rejected(self, combined_validation_result) ==
    [self      |-> self,
     validated |-> TRUE,
     result    |-> [success      |-> FALSE,
                    errors       |-> combined_validation_result.errors,
                    current_step |-> self.current_step]]

\* upload_identity_documents after its two precondition checks
upload_identity_documents_body(self, args, outcome) ==
    LET primary_id == DocumentData(args.primary_id_file_data)
        proof_of_address == DocumentData(args.proof_of_address_file_data)
        combined_validation_result ==
            combine_document_validations(primary_id, proof_of_address)
    IN  IF combined_validation_result.is_valid
          THEN upload_identity_documents_accepted(self, primary_id,
                                                  proof_of_address, outcome)
          ELSE upload_identity_documents_rejected(self,
                                                  combined_validation_result)

\* Bug: the step check only turns away an instance on its first step.
upload_identity_documents_WrongGuard(self, args, outcome) ==
    IF self.current_step = "personal_details"
      THEN [self      |-> self,
            validated |-> FALSE,
            result    |-> [success |-> FALSE,
                           errors  |-> [application_flow |->
                              "Currently on step: " \o self.current_step
                              \o ". Cannot upload documents."]]]
    ELSE upload_identity_documents_body(self, args, outcome)

\* Bug: both precondition checks are missing.
upload_identity_documents_NoChecks(self, args, outcome) ==
    upload_identity_documents_body(self, args, outcome)

\* BankAccountApplication.upload_identity_documents
upload_identity_documents(self, args, outcome) ==
    IF self.current_step # "id_verification"
      THEN [self      |-> self,
            validated |-> FALSE,
            result    |-> [success |-> FALSE,
                           errors  |-> [application_flow |->
                              "Currently on step: " \o self.current_step
                              \o ". Cannot upload documents."]]]
    ELSE IF self.personal_details_data = None
      THEN [self      |-> self,
            validated |-> FALSE,
            result    |-> [success |-> FALSE,
                           errors  |-> [application_flow |->
                              "Personal details must be completed first."]]]
    ELSE upload_identity_documents_body(self, args, outcome)

\* ------------------------------------------------------------------------
\* Inputs of the calls
\* ------------------------------------------------------------------------
Empty == <<>>

FullNames == {Empty, <<"A", "l", "i", "c", "e">>}

\* "", a non-date, "1990-01-15" and "2050-12-25" (code.py lines 291, 329).
BirthDates == {Empty,
               <<"n", "o">>,
               <<"1", "9", "9", "0", "-", "0", "1", "-", "1", "5">>,
               <<"2", "0", "5", "0", "-", "1", "2", "-", "2", "5">>}

Addresses == {Empty, <<"1", " ", "R", "d">>}

\* "", "charlie.com" shortened, and a well-formed address.
Emails == {Empty, <<"c", ".", "c", "o", "m">>, <<"a", "@", "w", ".", "c">>}

\* "", "not-a-phone" shortened, and a well-formed number.
Phones == {Empty,
           <<"n", "o", "t", "-", "a">>,
           <<"+", "4", "4", "7", "1", "2", "3", "4">>}

PersonalDetailsArgs ==
    [full_name : FullNames, date_of_birth : BirthDates,
     residential_address : Addresses, email : Emails, phone_number : Phones]

DocxType == "application/vnd.openxmlformats-officedocument.wordprocessingml.document"

\* Exactly the limit of 5 MiB, and one byte more.
FileSizes == {5 * 1024 * 1024, 5 * 1024 * 1024 + 1}

FileData ==
    [filename : {"passport.jpg"},
     content_type : {"image/jpeg", "application/pdf", DocxType},
     size_bytes : FileSizes]

DocumentArgs ==
    [primary_id_file_data : FileData, proof_of_address_file_data : FileData]

\* The values date.today() takes during a run: the day before the birth
\* date "2050-12-25", and that day.
ClockDates == {<<2050, 12, 24>>, <<2050, 12, 25>>}

\* How many times the store write may raise in one run.
MaxStoreFailures == 1

\* ------------------------------------------------------------------------
\* State
\* ------------------------------------------------------------------------
VARIABLES
    current_step,               \* self._current_step
    personal_details_data,      \* self._personal_details_data
    primary_id_document,        \* self._primary_id_document
    proof_of_address_document,  \* self._proof_of_address_document
    secure_storage,             \* self._secure_storage
    today,                      \* what date.today() returns now
    call,                       \* the last call: method, arguments, the date
                                \* it read, whether it ran a validate()
    result,                     \* what the last call returned or raised
    store_failures,             \* how many store writes have raised so far
    other                       \* a second BankAccountApplication instance

app_vars == <<current_step, personal_details_data, primary_id_document,
              proof_of_address_document, secure_storage>>

vars == <<current_step, personal_details_data, primary_id_document,
          proof_of_address_document, secure_storage, today, call, result,
          store_failures, other>>

\* The instance as one value.
Self ==
    [current_step              |-> current_step,
     personal_details_data     |-> personal_details_data,
     primary_id_document       |-> primary_id_document,
     proof_of_address_document |-> proof_of_address_document,
     secure_storage            |-> secure_storage]

NoCall == [method |-> "none"]

Init ==
    /\ current_step = NewApplication.current_step
    /\ personal_details_data = NewApplication.personal_details_data
    /\ primary_id_document = NewApplication.primary_id_document
    /\ proof_of_address_document = NewApplication.proof_of_address_document
    /\ secure_storage = NewApplication.secure_storage
    /\ today \in ClockDates
    /\ call = NoCall
    /\ result = None
    /\ store_failures = 0
    /\ other = NewApplication

\* A caller invokes app.submit_personal_details(...).
SubmitPersonalDetails ==
    \E args \in PersonalDetailsArgs :
        \E out \in {submit_personal_details(Self, args, today, "stored")} :
            /\ current_step' = out.self.current_step
            /\ personal_details_data' = out.self.personal_details_data
            /\ primary_id_document' = out.self.primary_id_document
            /\ proof_of_address_document' = out.self.proof_of_address_document
            /\ secure_storage' = out.self.secure_storage
            /\ call' = [method |-> "submit_personal_details", args |-> args,
                        today |-> today, validated |-> out.validated]
            /\ result' = out.result
            /\ UNCHANGED <<today, store_failures, other>>

\* A caller invokes app.upload_identity_documents(...).
UploadIdentityDocuments ==
    \E args \in DocumentArgs :
        \E out \in {upload_identity_documents(Self, args, "stored")} :
            /\ current_step' = out.self.current_step
            /\ personal_details_data' = out.self.personal_details_data
            /\ primary_id_document' = out.self.primary_id_document
            /\ proof_of_address_document' = out.self.proof_of_address_document
            /\ secure_storage' = out.self.secure_storage
            /\ call' = [method |-> "upload_identity_documents", args |-> args,
                        today |-> today, validated |-> out.validated]
            /\ result' = out.result
            /\ UNCHANGED <<today, store_failures, other>>

\* The calendar day changes between two calls.
Tick ==
    /\ \E d \in ClockDates : DateAfter(d, today) /\ today' = d
    /\ UNCHANGED <<app_vars, call, result, store_failures, other>>

Next == SubmitPersonalDetails \/ UploadIdentityDocuments \/ Tick

Spec == Init /\ [][Next]_vars

\* ------------------------------------------------------------------------
\* The same calls against a store whose write can raise
\* ------------------------------------------------------------------------
\* submit_personal_details while _securely_store_data raises.
SubmitPersonalDetailsStoreFails ==
    /\ store_failures < MaxStoreFailures
    /\ \E args \in PersonalDetailsArgs, outcome \in StoreFailures :
        \E out \in {submit_personal_details(Self, args, today, outcome)} :
            /\ out.result = StoreError
            /\ current_step' = out.self.current_step
            /\ personal_details_data' = out.self.personal_details_data
            /\ primary_id_document' = out.self.primary_id_document
            /\ proof_of_address_document' = out.self.proof_of_address_document
            /\ secure_storage' = out.self.secure_storage
            /\ call' = [method |-> "submit_personal_details", args |-> args,
                        today |-> today, validated |-> out.validated]
            /\ result' = out.result
            /\ store_failures' = store_failures + 1
            /\ UNCHANGED <<today, other>>

\* upload_identity_documents while _securely_store_data raises.
UploadIdentityDocumentsStoreFails ==
    /\ store_failures < MaxStoreFailures
    /\ \E args \in DocumentArgs, outcome \in StoreFailures :
        \E out \in {upload_identity_documents(Self, args, outcome)} :
            /\ out.result = StoreError
            /\ current_step' = out.self.current_step
            /\ personal_details_data' = out.self.personal_details_data
            /\ primary_id_document' = out.self.primary_id_document
            /\ proof_of_address_document' = out.self.proof_of_address_document
            /\ secure_storage' = out.self.secure_storage
            /\ call' = [method |-> "upload_identity_documents", args |-> args,
                        today |-> today, validated |-> out.validated]
            /\ result' = out.result
            /\ store_failures' = store_failures + 1
            /\ UNCHANGED <<today, other>>

NextStoreFail ==
    \/ SubmitPersonalDetails
    \/ UploadIdentityDocuments
    \/ Tick
    \/ SubmitPersonalDetailsStoreFails
    \/ UploadIdentityDocumentsStoreFails

SpecStoreFail == Init /\ [][NextStoreFail]_vars

\* ------------------------------------------------------------------------
\* The same calls when the print of _securely_store_data raises
\* ------------------------------------------------------------------------
\* The failure the code as written can meet in _securely_store_data: the
\* assignment to the dictionary is done, then print raises.
PrintFailures == {"raise_after_write"}

\* submit_personal_details while the print of _securely_store_data raises.
SubmitPersonalDetailsPrintFails ==
    /\ store_failures < MaxStoreFailures
    /\ \E args \in PersonalDetailsArgs, outcome \in PrintFailures :
        \E out \in {submit_personal_details(Self, args, today, outcome)} :
            /\ out.result = StoreError
            /\ current_step' = out.self.current_step
            /\ personal_details_data' = out.self.personal_details_data
            /\ primary_id_document' = out.self.primary_id_document
            /\ proof_of_address_document' = out.self.proof_of_address_document
            /\ secure_storage' = out.self.secure_storage
            /\ call' = [method |-> "submit_personal_details", args |-> args,
                        today |-> today, validated |-> out.validated]
            /\ result' = out.result
            /\ store_failures' = store_failures + 1
            /\ UNCHANGED <<today, other>>

\* upload_identity_documents while the print of _securely_store_data raises.
UploadIdentityDocumentsPrintFails ==
    /\ store_failures < MaxStoreFailures
    /\ \E args \in DocumentArgs, outcome \in PrintFailures :
        \E out \in {upload_identity_documents(Self, args, outcome)} :
            /\ out.result = StoreError
            /\ current_step' = out.self.current_step
            /\ personal_details_data' = out.self.personal_details_data
            /\ primary_id_document' = out.self.primary_id_document
            /\ proof_of_address_document' = out.self.proof_of_address_document
            /\ secure_storage' = out.self.secure_storage
            /\ call' = [method |-> "upload_identity_documents", args |-> args,
                        today |-> today, validated |-> out.validated]
            /\ result' = out.result
            /\ store_failures' = store_failures + 1
            /\ UNCHANGED <<today, other>>

NextPrintFails ==
    \/ SubmitPersonalDetails
    \/ UploadIdentityDocuments
    \/ Tick
    \/ SubmitPersonalDetailsPrintFails
    \/ UploadIdentityDocumentsPrintFails

SpecPrintFails == Init /\ [][NextPrintFails]_vars

\* ------------------------------------------------------------------------
\* Direct calls of the validation methods
\* ------------------------------------------------------------------------
\* Content types handed to DocumentData.validate: the accepted ones, the
\* docx type of the scenario, another image type, another spelling, none.
ProbeTypes ==
    {"image/jpeg", "image/png", "application/pdf", DocxType, "image/gif",
     "IMAGE/JPEG", ""}

\* Sizes handed to DocumentData.validate, around the limit of 5 MiB.
ProbeSizes ==
    {0, 500 * 1024, 1 * 1024 * 1024, 5 * 1024 * 1024 - 1, 5 * 1024 * 1024,
     5 * 1024 * 1024 + 1, 6 * 1024 * 1024}

DocumentProbes ==
    [filename : {"passport.jpg"}, content_type : ProbeTypes,
     size_bytes : ProbeSizes]

DocumentFieldNames == {"primary_id_document", "proof_of_address_document"}

\* A caller invokes DocumentData(**file_data).validate(field_name).
ValidateDocument ==
    \E file_data \in DocumentProbes, field_name \in DocumentFieldNames :
        /\ call' = [method |-> "DocumentData.validate",
                    args |-> [file_data |-> file_data,
                              field_name |-> field_name],
                    today |-> today, validated |-> TRUE]
        /\ result' = DocumentData_validate(DocumentData(file_data), field_name)
        /\ UNCHANGED <<app_vars, today, store_failures, other>>

\* Strings handed to Validator.is_future_date, each with the calendar day
\* Python's datetime.strptime(s, "%Y-%m-%d") gives for it, <<0, 0, 0>> when
\* it raises ValueError.
DateTable ==
    {
     <<<<>>,
       <<0, 0, 0>>>>,
     <<<<"n", "o">>,
       <<0, 0, 0>>>>,
     <<<<"n", "o", "t", "-", "a", "-", "d", "a", "t", "e">>,
       <<0, 0, 0>>>>,
     <<<<"2", "0", "5", "0", "-", "1", "2", "-", "2", "4">>,
       <<2050, 12, 24>>>>,
     <<<<"2", "0", "5", "0", "-", "1", "2", "-", "2", "5">>,
       <<2050, 12, 25>>>>,
     <<<<"2", "0", "5", "0", "-", "1", "2", "-", "2", "6">>,
       <<2050, 12, 26>>>>,
     <<<<"2", "0", "5", "1", "-", "0", "1", "-", "0", "1">>,
       <<2051, 1, 1>>>>,
     <<<<"2", "0", "4", "9", "-", "1", "2", "-", "3", "1">>,
       <<2049, 12, 31>>>>,
     <<<<"1", "9", "9", "0", "-", "0", "1", "-", "1", "5">>,
       <<1990, 1, 15>>>>,
     <<<<"2", "0", "5", "0", "-", "1", "-", "5">>,
       <<2050, 1, 5>>>>,
     <<<<"2", "0", "5", "2", "-", "0", "2", "-", "2", "9">>,
       <<2052, 2, 29>>>>,
     <<<<"2", "0", "5", "1", "-", "0", "2", "-", "2", "9">>,
       <<0, 0, 0>>>>,
     <<<<"2", "0", "5", "0", "-", "1", "3", "-", "0", "1">>,
       <<0, 0, 0>>>>,
     <<<<"2", "0", "5", "0", "-", "1", "2", "-", "3", "2">>,
       <<0, 0, 0>>>>,
     <<<<"2", "5", "-", "1", "2", "-", "2", "0", "5", "0">>,
       <<0, 0, 0>>>>,
     <<<<"2", "0", "5", "0", "/", "1", "2", "/", "2", "5">>,
       <<0, 0, 0>>>>,
     <<<<"2", "0", "5", "0", "-", "1", "2", "-", "2", "5", " ">>,
       <<0, 0, 0>>>>,
     <<<<"0", "0", "0", "0", "-", "1", "2", "-", "2", "5">>,
       <<0, 0, 0>>>>,
     <<<<"2", "0", "5", "0", "-", "1", "2", "-", "0", "0">>,
       <<0, 0, 0>>>>}

DateProbes == {row[1] : row \in DateTable}

\* A caller invokes Validator.is_future_date(dt_str).
CallIsFutureDate ==
    \E dt_str \in DateProbes :
        /\ call' = [method |-> "Validator.is_future_date",
                    args |-> [dt_str |-> dt_str],
                    today |-> today, validated |-> FALSE]
        /\ result' = [returned |-> is_future_date(dt_str, today)]
        /\ UNCHANGED <<app_vars, today, store_failures, other>>

\* Strings handed to Validator.is_valid_phone: lengths 0, 6, 7, 15 and 16
\* with and without the leading +, spaces and hyphens, letters, a + out of
\* place, and tabs and newlines inside and at the end.
PhoneProbes ==
    {<<>>,
     <<"1", "2", "3", "4", "5", "6">>,
     <<"1", "2", "3", "4", "5", "6", "7">>,
     <<"1", "2", "3", "4", "5", "6", "7", "8", "9", "0", "1", "2", "3", "4", "5">>,
     <<"1", "2", "3", "4", "5", "6", "7", "8", "9", "0", "1", "2", "3", "4", "5", "6">>,
     <<"+", "1", "2", "3", "4", "5", "6">>,
     <<"+", "1", "2", "3", "4", "5", "6", "7">>,
     <<"+", "1", "2", "3", "4", "5", "6", "7", "8", "9", "0", "1", "2", "3", "4", "5">>,
     <<"+", "1", "2", "3", "4", "5", "6", "7", "8", "9", "0", "1", "2", "3", "4", "5", "6">>,
     <<"1", "2", "3", "-", "4", "5", " ", "6", "7">>,
     <<"+", "4", "4", " ", "7", "1", "2", "3", "-", "4">>,
     <<"n", "o", "t", "-", "a", "-", "p", "h", "o", "n", "e">>,
     <<"1", "2", "3", "4", "5", "a", "7">>,
     <<"+", "+", "1", "2", "3", "4", "5", "6", "7">>,
     <<"1", "2", "3", "4", "5", "6", "7", "+">>,
     <<"+">>,
     <<" ", "1", "2", "3", "4", "5", "6", "7">>,
     <<"1", "2", "3", "4", "5", "6", "\t">>,
     <<"1", "2", "3", "\t", "4", "5", "6", "7">>,
     <<"1", "2", "3", "4", "5", "6", "7", "\n">>,
     <<"1", "2", "3", "4", "5", "6", "\n">>,
     <<"1", "2", "3", "4", "5", "6", "7", "\n", "\n">>,
     <<"\n", "1", "2", "3", "4", "5", "6", "7">>,
     <<"1", "2", "3", "4", "5", "6", "7", "8", "9", "0", "1", "2", "3", "4", "5", "\n">>,
     <<"+", "4", "4", "7", "1", "2", "3", "4">>}

\* A caller invokes Validator.is_valid_phone(phone_number).
CallIsValidPhone ==
    \E phone_number \in PhoneProbes :
        /\ call' = [method |-> "Validator.is_valid_phone",
                    args |-> [phone_number |-> phone_number],
                    today |-> today, validated |-> FALSE]
        /\ result' = [returned |-> is_valid_phone(phone_number)]
        /\ UNCHANGED <<app_vars, today, store_failures, other>>

\* A caller invokes PersonalDetailsData(...).validate().
ValidatePersonalDetails ==
    \E args \in PersonalDetailsArgs :
        /\ call' = [method |-> "PersonalDetailsData.validate", args |-> args,
                    today |-> today, validated |-> TRUE]
        /\ result' = PersonalDetailsData_validate(
                         PersonalDetailsData(args.full_name, args.date_of_birth,
                                             args.residential_address,
                                             args.email, args.phone_number),
                         today)
        /\ UNCHANGED <<app_vars, today, store_failures, other>>

\* The combined result upload_identity_documents builds from the results of
\* the two documents.
CombineDocumentValidations ==
    \E args \in DocumentArgs :
        /\ call' = [method |-> "combined_validation_result", args |-> args,
                    today |-> today, validated |-> TRUE]
        /\ result' = combine_document_validations(
                         DocumentData(args.primary_id_file_data),
                         DocumentData(args.proof_of_address_file_data))
        /\ UNCHANGED <<app_vars, today, store_failures, other>>

\* How many times add_error is called on one result after it was returned.
MaxAddedErrors == 2

\* The result in hand is a ValidationResult.
IsValidationResult(r) == DOMAIN r = {"is_valid", "errors"}

\* A caller invokes add_error(field, message) on the result in hand.
AddError ==
    LET added == IF call.method = "ValidationResult.add_error"
                   THEN call.added ELSE 0
    IN  /\ IsValidationResult(result)
        /\ added < MaxAddedErrors
        /\ \E field \in {"email", "primary_id_document"} :
              /\ call' = [method |-> "ValidationResult.add_error",
                          args |-> [field |-> field,
                                    message |-> "Another message."],
                          today |-> today, validated |-> FALSE,
                          added |-> added + 1]
              /\ result' = add_error(result, field, "Another message.")
        /\ UNCHANGED <<app_vars, today, store_failures, other>>

\* Direct calls of the validators and of the validate methods.
NextValidators ==
    \/ CallIsFutureDate
    \/ CallIsValidPhone
    \/ ValidatePersonalDetails
    \/ ValidateDocument
    \/ CombineDocumentValidations
    \/ AddError
    \/ Tick

SpecValidators == Init /\ [][NextValidators]_vars

\* The workflow together with direct calls of DocumentData.validate.
NextDocuments == Next \/ ValidateDocument

SpecDocuments == Init /\ [][NextDocuments]_vars

\* ------------------------------------------------------------------------
\* Two instances, called in any order
\* ------------------------------------------------------------------------
\* The two instances: 1 is the one held in the instance variables, 2 is
\* the one held in other.
Instances == {1, 2}

\* Bug: one dictionary made once, at class level, serves every instance.
secure_storage_id_ClassLevel(instance) == 0

\* The identity of the dictionary behind self._secure_storage: __init__
\* builds a new dictionary for each instance it initialises.
secure_storage_id(instance) == instance

\* Calls made on either instance: every birth date with the other fields
\* well-formed, and twice the same file for the two documents.
TwoInstancePersonalDetailsArgs ==
    {a \in PersonalDetailsArgs :
        /\ a.full_name # Empty
        /\ a.residential_address # Empty
        /\ is_valid_email(a.email)
        /\ is_valid_phone(a.phone_number)}

TwoInstanceDocumentArgs ==
    {a \in DocumentArgs :
        a.primary_id_file_data = a.proof_of_address_file_data}

\* The instance left by a call on one of the two: the called instance takes
\* the attributes the call leaves, and a write to the dictionary behind its
\* _secure_storage shows in the other instance when both hold the same
\* dictionary.
AfterCallOn(instance, new) ==
    LET same_dict == secure_storage_id(1) = secure_storage_id(2)
    IN  IF instance = 1
          THEN /\ current_step' = new.current_step
               /\ personal_details_data' = new.personal_details_data
               /\ primary_id_document' = new.primary_id_document
               /\ proof_of_address_document' = new.proof_of_address_document
               /\ secure_storage' = new.secure_storage
               /\ other' = IF same_dict
                             THEN [other EXCEPT
                                     !.secure_storage = new.secure_storage]
                             ELSE other
          ELSE /\ other' = new
               /\ secure_storage' = IF same_dict THEN new.secure_storage
                                                 ELSE secure_storage
               /\ UNCHANGED <<current_step, personal_details_data,
                              primary_id_document, proof_of_address_document>>

\* A caller invokes submit_personal_details(...) on one of the instances.
SubmitPersonalDetailsOnInstance ==
    \E instance \in Instances, args \in TwoInstancePersonalDetailsArgs :
        \E out \in {submit_personal_details(
                        IF instance = 1 THEN Self ELSE other,
                        args, today, "stored")} :
            /\ AfterCallOn(instance, out.self)
            /\ call' = [method |-> "submit_personal_details", args |-> args,
                        today |-> today, validated |-> out.validated,
                        instance |-> instance]
            /\ result' = out.result
            /\ UNCHANGED <<today, store_failures>>

\* A caller invokes upload_identity_documents(...) on one of the instances.
UploadIdentityDocumentsOnInstance ==
    \E instance \in Instances, args \in TwoInstanceDocumentArgs :
        \E out \in {upload_identity_documents(
                        IF instance = 1 THEN Self ELSE other,
                        args, "stored")} :
            /\ AfterCallOn(instance, out.self)
            /\ call' = [method |-> "upload_identity_documents", args |-> args,
                        today |-> today, validated |-> out.validated,
                        instance |-> instance]
            /\ result' = out.result
            /\ UNCHANGED <<today, store_failures>>

NextTwoInstances ==
    \/ SubmitPersonalDetailsOnInstance
    \/ UploadIdentityDocumentsOnInstance
    \/ Tick

SpecTwoInstances == Init /\ [][NextTwoInstances]_vars

\* ------------------------------------------------------------------------
\* Callers who keep offering submissions the current step accepts
\* ------------------------------------------------------------------------
\* A call on the instance that returns success = True.
AcceptedSubmissionOn(instance) ==
    /\ SubmitPersonalDetailsOnInstance \/ UploadIdentityDocumentsOnInstance
    /\ call'.instance = instance
    /\ result'.success

\* Any calls on the two instances in any order, invalid and wrong-step ones
\* included; on each instance a call its current step accepts is not put
\* off for ever.
SpecProgress ==
    /\ Init
    /\ [][NextTwoInstances]_vars
    /\ WF_vars(AcceptedSubmissionOn(1))
    /\ WF_vars(AcceptedSubmissionOn(2))

\* ------------------------------------------------------------------------
\* Vocabulary of the properties
\* ------------------------------------------------------------------------
\* The call returned a dictionary with success = True / False.
Succeeded(r) == "success" \in DOMAIN r /\ r.success

Failed(r) == "success" \in DOMAIN r /\ ~r.success

\* A failure whose errors carry the reserved key.
IsFlowError(r) == Failed(r) /\ "application_flow" \in DOMAIN r.errors

\* The step is a call of the given method (a call reads the clock, it does
\* not move it).
CallOf(method) == today' = today /\ call'.method = method

\* The rules on the fields, as the specification words them.
ViolatedPersonalFields(args, date) ==
    {f \in {"full_name"} : args.full_name = <<>>}
    \cup {f \in {"date_of_birth"} :
            \/ args.date_of_birth = <<>>
            \/ strptime(args.date_of_birth) = ValueError
            \/ DateAfter(strptime(args.date_of_birth), date)}
    \cup {f \in {"residential_address"} : args.residential_address = <<>>}
    \cup {f \in {"email"} : args.email = <<>> \/ ~is_valid_email(args.email)}
    \cup {f \in {"phone_number"} :
            args.phone_number = <<>> \/ ~is_valid_phone(args.phone_number)}

BreaksDocumentRule(file_data) ==
    \/ file_data.content_type \notin {"image/jpeg", "image/png", "application/pdf"}
    \/ file_data.size_bytes > 5 * 1024 * 1024

ViolatedDocumentFields(args) ==
    {f \in {"primary_id_document"} : BreaksDocumentRule(args.primary_id_file_data)}
    \cup {f \in {"proof_of_address_document"} :
            BreaksDocumentRule(args.proof_of_address_file_data)}

\* The fields of the arguments of a call that break a rule.
ViolatedFields(c) ==
    IF c.method = "submit_personal_details"
      THEN ViolatedPersonalFields(c.args, c.today)
      ELSE ViolatedDocumentFields(c.args)

ValidDocumentArgs == {a \in DocumentArgs : ViolatedDocumentFields(a) = {}}

\* ------------------------------------------------------------------------
\* Properties
\* ------------------------------------------------------------------------

\* C1: a call of submit_personal_details when current_step is not
\* "personal_details", or of upload_identity_documents when it is not
\* "id_verification", returns success = False with an error under the key
\* "application_flow", runs no validation and leaves the step, the committed
\* records and the secure storage unchanged.
C1_WrongStepIsFlowError ==
    [][(\/ CallOf("submit_personal_details")
           /\ current_step # "personal_details"
        \/ CallOf("upload_identity_documents")
           /\ current_step # "id_verification")
       => /\ IsFlowError(result')
          /\ ~call'.validated
          /\ UNCHANGED app_vars]_vars

C1_Witness ==
    /\ call.method = "submit_personal_details"
    /\ ViolatedFields(call) = {}
    /\ current_step = "id_verification"
    /\ IsFlowError(result)
    /\ ~call.validated

\* C2 as stated: the same payload submitted again right after it was
\* rejected by validation gets the same result, whatever the date, and a
\* rejection never changes the step or the committed records.
C2_SameRejectionWhateverTheDate ==
    [][/\ (today' = today /\ call'.validated /\ Failed(result'))
            => (UNCHANGED app_vars /\ result'.current_step = current_step)
       /\ (/\ today' = today
           /\ call.method = call'.method
           /\ call.args = call'.args
           /\ call.validated /\ Failed(result))
            => (result' = result /\ UNCHANGED app_vars)]_vars

\* C2 amended: the same payload submitted again right after it was rejected
\* by validation, on the same calendar day, gets the same result (success =
\* False, the same errors, current_step the step submitted to); a rejection
\* never changes the step or the committed records.
C2_SameRejectionOnTheSameDay ==
    [][/\ (today' = today /\ call'.validated /\ Failed(result'))
            => (UNCHANGED app_vars /\ result'.current_step = current_step)
       /\ (/\ today' = today
           /\ call.method = call'.method
           /\ call.args = call'.args
           /\ call.today = call'.today
           /\ call.validated /\ Failed(result))
            => (result' = result /\ UNCHANGED app_vars)]_vars

C2_Witness ==
    /\ call.method = "submit_personal_details"
    /\ call.validated
    /\ Failed(result)
    /\ call.today = today
    /\ DOMAIN result.errors = {"date_of_birth"}
    /\ result.current_step = "personal_details"
    /\ personal_details_data = None

\* C3: a submission that validation turns down commits no record and writes
\* nothing to the secure storage; an upload of one valid and one invalid
\* document commits neither.
C3_NoPartialCommit ==
    [][(today' = today /\ call'.validated
        /\ (Failed(result') \/ ViolatedFields(call') # {}))
       => /\ Failed(result')
          /\ UNCHANGED <<personal_details_data, primary_id_document,
                         proof_of_address_document, secure_storage>>]_vars

C3_Witness ==
    /\ call.method = "upload_identity_documents"
    /\ call.validated
    /\ ViolatedFields(call) = {"primary_id_document"}
    /\ Failed(result)
    /\ primary_id_document = None
    /\ proof_of_address_document = None
    /\ secure_storage.documents = <<>>

\* C4: a valid submission to the current step commits the record made of
\* exactly the submitted input, writes its dictionary form to the secure
\* storage under the key of the step, moves current_step to the next step
\* and returns success = True with next_step the new current_step.
C4_ValidSubmissionCommits ==
    [][/\ (/\ CallOf("submit_personal_details")
           /\ current_step = "personal_details"
           /\ ViolatedFields(call') = {})
            => /\ personal_details_data' = call'.args
               /\ secure_storage'.personal_details = call'.args
               /\ secure_storage'.documents = secure_storage.documents
               /\ current_step' = "id_verification"
               /\ Succeeded(result')
               /\ result'.next_step = current_step'
       /\ (/\ CallOf("upload_identity_documents")
           /\ current_step = "id_verification"
           /\ ViolatedFields(call') = {})
            => /\ \A k \in {"filename", "content_type", "size_bytes"} :
                    /\ primary_id_document'[k]
                         = call'.args.primary_id_file_data[k]
                    /\ proof_of_address_document'[k]
                         = call'.args.proof_of_address_file_data[k]
               /\ secure_storage'.documents =
                    [primary_id       |-> call'.args.primary_id_file_data,
                     proof_of_address |-> call'.args.proof_of_address_file_data]
               /\ secure_storage'.personal_details
                    = secure_storage.personal_details
               /\ current_step' = "review_and_submit"
               /\ Succeeded(result')
               /\ result'.next_step = current_step']_vars

C4_Witness ==
    /\ call.method = "upload_identity_documents"
    /\ Succeeded(result)
    /\ result.next_step = "review_and_submit"
    /\ current_step = "review_and_submit"
    /\ secure_storage.personal_details = personal_details_data
    /\ secure_storage.documents.primary_id = call.args.primary_id_file_data

\* C5: current_step never moves to an earlier step, and each successful
\* call moves it forward by exactly one step.
C5_StepMonotonicity ==
    [][/\ StepIndex(current_step') >= StepIndex(current_step)
       /\ (today' = today /\ Succeeded(result'))
            => StepIndex(current_step') = StepIndex(current_step) + 1
       /\ (today' = today /\ ~Succeeded(result'))
            => current_step' = current_step]_vars

C5_Witness ==
    /\ current_step = "review_and_submit"
    /\ call.method = "upload_identity_documents"
    /\ Succeeded(result)

\* C6: once current_step is "review_and_submit", every later call returns
\* success = False and leaves the whole instance unchanged.
C6_TerminalStepAbsorbs ==
    [][current_step = "review_and_submit"
       => /\ UNCHANGED app_vars
          /\ today' = today => Failed(result')]_vars

C6_Witness ==
    /\ current_step = "review_and_submit"
    /\ call.method = "upload_identity_documents"
    /\ ViolatedFields(call) = {}
    /\ Failed(result)
    /\ primary_id_document
         # DocumentData(call.args.primary_id_file_data)

\* C7: a committed record never changes: once the personal details are
\* committed, they and their entry of the secure storage stay as they are,
\* and likewise for the two documents.
C7_CommittedOnce ==
    [][/\ personal_details_data # None
            => /\ personal_details_data' = personal_details_data
               /\ secure_storage'.personal_details
                    = secure_storage.personal_details
       /\ (primary_id_document # None \/ proof_of_address_document # None)
            => /\ primary_id_document' = primary_id_document
               /\ proof_of_address_document' = proof_of_address_document
               /\ secure_storage'.documents = secure_storage.documents]_vars

C7_Witness ==
    /\ personal_details_data # None
    /\ primary_id_document # None
    /\ call.method = "submit_personal_details"
    /\ ViolatedFields(call) = {}
    /\ call.args # personal_details_data

\* C8: when validation runs, the returned errors have a non-empty entry for
\* every field that breaks a rule and for no other field.
C8_ErrorCompleteness ==
    [][(today' = today /\ call'.validated)
       => IF ViolatedFields(call') = {}
            THEN Succeeded(result')
            ELSE /\ Failed(result')
                 /\ DOMAIN result'.errors = ViolatedFields(call')
                 /\ \A f \in DOMAIN result'.errors :
                        Len(result'.errors[f]) > 0]_vars

C8_Witness ==
    /\ call.method = "submit_personal_details"
    /\ call.validated
    /\ ViolatedFields(call) = {"date_of_birth", "email", "phone_number"}
    /\ DOMAIN result.errors = {"date_of_birth", "email", "phone_number"}

\* C9: upload_identity_documents on an instance without committed personal
\* details gives a flow error, validates no document, commits nothing and
\* leaves current_step at "personal_details".
C9_UploadBeforePersonalDetails ==
    [][(CallOf("upload_identity_documents") /\ personal_details_data = None)
       => /\ IsFlowError(result')
          /\ ~call'.validated
          /\ UNCHANGED app_vars
          /\ current_step' = "personal_details"]_vars

C9_Witness ==
    /\ call.method = "upload_identity_documents"
    /\ ViolatedFields(call) = {}
    /\ personal_details_data = None
    /\ current_step = "personal_details"
    /\ IsFlowError(result)

\* C10: when the store write fails during a submission that passed
\* validation, the instance is left exactly as before the call (step not
\* advanced, no record left committed), and no call returns success = True
\* without its record being in the store.
C10_StoreFailureLeavesInstanceAsBefore ==
    [][/\ (today' = today /\ result' = StoreError
           /\ store_failures' = store_failures + 1)
            => UNCHANGED app_vars
       /\ (CallOf("submit_personal_details") /\ Succeeded(result'))
            => secure_storage'.personal_details = call'.args
       /\ (CallOf("upload_identity_documents") /\ Succeeded(result'))
            => secure_storage'.documents =
                 [primary_id       |-> call'.args.primary_id_file_data,
                  proof_of_address |-> call'.args.proof_of_address_file_data]]_vars


\* The result hands the submitted fields back, as an echo entry or field by
\* field.
EchoesInput(r, args) ==
    \/ "echo" \in DOMAIN r /\ r.echo = args
    \/ \A f \in DOMAIN args : f \in DOMAIN r /\ r[f] = args[f]

FlowMessage(method, step) ==
    "Currently on step: " \o step \o
      (IF method = "submit_personal_details"
         THEN ". Cannot submit personal details."
         ELSE ". Cannot upload documents.")

\* C12 as stated: every failure result, the flow error included, carries a
\* current_step entry equal to the current step of the instance.
C12_EveryFailureCarriesStep ==
    [][(today' = today /\ Failed(result'))
       => /\ "current_step" \in DOMAIN result'
          /\ result'.current_step = current_step]_vars

\* C12 amended: a failure result of validation carries a current_step entry
\* equal to the current step of the instance; a flow-error result has only
\* the entries success and errors, and names the current step inside its
\* message.
C12_OnlyRejectionCarriesStep ==
    [][(today' = today /\ Failed(result'))
       => IF call'.validated
            THEN /\ "current_step" \in DOMAIN result'
                 /\ result'.current_step = current_step
            ELSE /\ DOMAIN result' = {"success", "errors"}
                 /\ DOMAIN result'.errors = {"application_flow"}
                 /\ result'.errors.application_flow
                      = FlowMessage(call'.method, current_step)]_vars

C12_Witness ==
    /\ call.method = "upload_identity_documents"
    /\ current_step = "review_and_submit"
    /\ Failed(result)
    /\ "current_step" \notin DOMAIN result
    /\ result.errors.application_flow
         = "Currently on step: review_and_submit. Cannot upload documents."


\* The rule on a document as the specification words it: an accepted type
\* and at most 5 MiB.
MeetsDocumentRule(file_data) ==
    /\ file_data.content_type \in {"image/jpeg", "image/png", "application/pdf"}
    /\ file_data.size_bytes <= 5242880

\* C13: DocumentData.validate finds a document valid exactly when its type
\* is image/jpeg, image/png or application/pdf and its size is at most
\* 5 * 1024 * 1024 bytes (5242880 accepted, 5242881 rejected), and an upload
\* with a rejected document leaves the workflow on "id_verification".
C13_DocumentRule ==
    [][/\ CallOf("DocumentData.validate")
            => /\ result'.is_valid <=> MeetsDocumentRule(call'.args.file_data)
               /\ call'.args.file_data.size_bytes = 5242881
                    => ~result'.is_valid
               /\ (/\ call'.args.file_data.size_bytes = 5242880
                   /\ call'.args.file_data.content_type = "image/png")
                    => result'.is_valid
       /\ (CallOf("upload_identity_documents")
           /\ current_step = "id_verification")
            => IF /\ MeetsDocumentRule(call'.args.primary_id_file_data)
                  /\ MeetsDocumentRule(call'.args.proof_of_address_file_data)
                 THEN Succeeded(result')
                 ELSE Failed(result') /\ current_step' = "id_verification"]_vars

C13_Witness ==
    /\ call.method = "upload_identity_documents"
    /\ call.validated
    /\ call.args.primary_id_file_data.content_type = "image/jpeg"
    /\ call.args.primary_id_file_data.size_bytes = 5242881
    /\ call.args.proof_of_address_file_data.size_bytes = 5242880
    /\ call.args.proof_of_address_file_data.content_type = "application/pdf"
    /\ Failed(result)
    /\ DOMAIN result.errors = {"primary_id_document"}
    /\ current_step = "id_verification"


\* C14: a call on one BankAccountApplication instance leaves the current
\* step, the committed records and the _secure_storage of the other
\* instance unchanged, in whatever order the calls on the two instances
\* come.
C14_InstancesAreIndependent ==
    [][(today' = today /\ "instance" \in DOMAIN call')
        => IF call'.instance = 1 THEN other' = other
                                 ELSE UNCHANGED app_vars]_vars

C14_Witness ==
    /\ "instance" \in DOMAIN call
    /\ call.instance = 2
    /\ call.method = "upload_identity_documents"
    /\ Succeeded(result)
    /\ other.current_step = "review_and_submit"
    /\ current_step = "id_verification"
    /\ other.secure_storage.personal_details # secure_storage.personal_details
    /\ secure_storage.documents = NewApplication.secure_storage.documents


\* The calendar day the table gives for a string.
DayOf(dt_str) == (CHOOSE row \in DateTable : row[1] = dt_str)[2]

\* The days as numbers that grow with the calendar.
DayNumber(d) == d[1] * 10000 + d[2] * 100 + d[3]

\* C15: Validator.is_future_date returns true for a string that does not
\* parse as a date, and for a string that parses it returns true exactly
\* when the date is strictly after today; today itself and earlier days
\* give false.
C15_FutureDate ==
    [][CallOf("Validator.is_future_date")
        => LET day == DayOf(call'.args.dt_str)
           IN  result'.returned
                 = IF day = <<0, 0, 0>> THEN TRUE
                   ELSE DayNumber(day) > DayNumber(today)]_vars

C15_Witness ==
    /\ call.method = "Validator.is_future_date"
    /\ call.args.dt_str = <<"2", "0", "5", "0", "-", "1", "2", "-", "2", "5">>
    /\ call.today = <<2050, 12, 25>>
    /\ result.returned = FALSE


\* An optional leading + and then 7 to 15 characters, each a digit, a space
\* or a hyphen, and nothing else.
MeetsPhoneRule(s) ==
    LET rest == IF Len(s) > 0 /\ s[1] = "+" THEN Tail(s) ELSE s
    IN  /\ Len(rest) \in 7..15
        /\ \A i \in 1..Len(rest) :
              rest[i] \in {"0", "1", "2", "3", "4", "5", "6", "7", "8", "9",
                           " ", "-"}

\* C16: Validator.is_valid_phone returns true exactly when the whole string
\* is an optional leading + followed by 7 to 15 characters that are digits,
\* spaces or hyphens; any other character anywhere, a tab or a newline
\* included, or a length of 6 or 16, gives false.
C16_PhoneRule ==
    [][CallOf("Validator.is_valid_phone")
        => (result'.returned <=> MeetsPhoneRule(call'.args.phone_number))]_vars


\* C17: every ValidationResult that PersonalDetailsData.validate,
\* DocumentData.validate or the combination in upload_identity_documents
\* produces has is_valid true exactly when its errors map is empty, and
\* after add_error the result is not valid, whatever it was before.
C17_ValidIffNoErrors ==
    [][IsValidationResult(result')
        => /\ result'.is_valid <=> (DOMAIN result'.errors = {})
           /\ \A f \in DOMAIN result'.errors : Len(result'.errors[f]) > 0
           /\ CallOf("ValidationResult.add_error")
                => /\ ~result'.is_valid
                   /\ call'.args.field \in DOMAIN result'.errors]_vars

C17_Witness ==
    /\ call.method = "ValidationResult.add_error"
    /\ call.added = 2
    /\ ~result.is_valid
    /\ DOMAIN result.errors = {"email"}
    /\ Len(result.errors.email) = 2

\* The message of the first check a field fails, in the order mandatory,
\* format, semantic; "" when it passes all of them.
FirstFailure(args, date) ==
    [full_name |->
        IF args.full_name = <<>> THEN "Full Name is mandatory." ELSE "",
     date_of_birth |->
        IF args.date_of_birth = <<>> THEN "Date of Birth is mandatory."
        ELSE IF DayOf(args.date_of_birth) = <<0, 0, 0>>
          THEN "Invalid date of birth format. Please use YYYY-MM-DD."
        ELSE IF DayNumber(DayOf(args.date_of_birth)) > DayNumber(date)
          THEN "Date of birth cannot be in the future."
        ELSE "",
     residential_address |->
        IF args.residential_address = <<>>
          THEN "Residential Address is mandatory." ELSE "",
     email |->
        IF args.email = <<>> THEN "Email is mandatory."
        ELSE IF ~(\E i \in 1..Len(args.email) : args.email[i] = "@")
          THEN "Please enter a valid email address."
        ELSE "",
     phone_number |->
        IF args.phone_number = <<>> THEN "Phone Number is mandatory."
        ELSE IF ~MeetsPhoneRule(args.phone_number)
          THEN "Please enter a valid phone number."
        ELSE ""]

\* C18: PersonalDetailsData.validate gives each field at most one message,
\* that of the first check it fails: an empty field gets the mandatory
\* message only, a date of birth that does not parse gets the
\* invalid-format message only, a date that parses and is in the future
\* gets the future message only.
C18_FirstFailureOnly ==
    [][CallOf("PersonalDetailsData.validate")
        => LET first == FirstFailure(call'.args, today)
           IN  /\ DOMAIN result'.errors = {f \in DOMAIN first : first[f] # ""}
               /\ \A f \in DOMAIN result'.errors :
                     result'.errors[f] = <<first[f]>>]_vars

C18_Witness ==
    /\ call.method = "PersonalDetailsData.validate"
    /\ call.args.date_of_birth = <<"n", "o">>
    /\ call.args.email = <<>>
    /\ call.args.phone_number = <<"n", "o", "t", "-", "a">>
    /\ result.errors.date_of_birth
         = <<"Invalid date of birth format. Please use YYYY-MM-DD.">>
    /\ result.errors.email = <<"Email is mandatory.">>
    /\ result.errors.phone_number = <<"Please enter a valid phone number.">>


\* The document fails the type check and the size check.
FailsBothChecks(file_data) ==
    /\ file_data.content_type \notin {"image/jpeg", "image/png", "application/pdf"}
    /\ file_data.size_bytes > 5242880

\* The two messages of such a document, the type message first.
BothMessages(file_data) ==
    <<"File type '" \o file_data.content_type
        \o "' is not allowed. Accepted types: jpeg, png, pdf.",
      "File exceeds the maximum size limit of 5MB.">>

\* C19: a document whose type is not allowed and whose size is over the
\* maximum gets exactly two messages under its field key, the type message
\* first and the size message second, and upload_identity_documents returns
\* both under that key, also when the other document is invalid too.
C19_TypeAndSizeBothReported ==
    [][/\ (CallOf("DocumentData.validate")
           /\ FailsBothChecks(call'.args.file_data))
            => result'.errors
                 = (call'.args.field_name
                      :> BothMessages(call'.args.file_data))
       /\ (CallOf("upload_identity_documents") /\ call'.validated)
            => /\ FailsBothChecks(call'.args.primary_id_file_data)
                    => /\ Failed(result')
                       /\ "primary_id_document" \in DOMAIN result'.errors
                       /\ result'.errors.primary_id_document
                            = BothMessages(call'.args.primary_id_file_data)
               /\ FailsBothChecks(call'.args.proof_of_address_file_data)
                    => /\ Failed(result')
                       /\ "proof_of_address_document" \in DOMAIN result'.errors
                       /\ result'.errors.proof_of_address_document
                            = BothMessages(
                                call'.args.proof_of_address_file_data)]_vars

C19_Witness ==
    /\ call.method = "upload_identity_documents"
    /\ call.validated
    /\ FailsBothChecks(call.args.primary_id_file_data)
    /\ call.args.proof_of_address_file_data.content_type = "application/pdf"
    /\ call.args.proof_of_address_file_data.size_bytes = 5242881
    /\ Failed(result)
    /\ Len(result.errors.primary_id_document) = 2
    /\ Len(result.errors.proof_of_address_document) = 1

\* C20: in every reachable state _personal_details_data is set exactly when
\* current_step is not "personal_details", the two documents are both set
\* or both unset and are set exactly when current_step is
\* "review_and_submit", and no call returns the message of the
\* "Personal details must be completed first." branch.
C20_StepAndRecordsAgree ==
    /\ personal_details_data # None <=> current_step # "personal_details"
    /\ primary_id_document # None <=> proof_of_address_document # None
    /\ primary_id_document # None <=> current_step = "review_and_submit"
    /\ ~(/\ IsFlowError(result)
         /\ result.errors.application_flow
              = "Personal details must be completed first.")


\* The dictionary form of a committed personal details record.
PersonalDetailsAsDict(d) ==
    [f \in {"full_name", "date_of_birth", "residential_address", "email",
            "phone_number"} |-> d[f]]

\* The dictionary form of a committed document.
DocumentAsDict(d) ==
    [f \in {"filename", "content_type", "size_bytes"} |-> d[f]]

\* C21: in every reachable state _secure_storage has exactly the keys
\* "personal_details" and "documents"; the first is empty while no personal
\* details are committed and otherwise is the dictionary form of
\* _personal_details_data; the second is empty while no documents are
\* committed and otherwise holds the dictionary forms of the two committed
\* documents under "primary_id" and "proof_of_address".
C21_StorageMirrorsRecords ==
    /\ DOMAIN secure_storage = {"personal_details", "documents"}
    /\ IF personal_details_data = None
         THEN DOMAIN secure_storage.personal_details = {}
         ELSE secure_storage.personal_details
                = PersonalDetailsAsDict(personal_details_data)
    /\ IF primary_id_document = None /\ proof_of_address_document = None
         THEN DOMAIN secure_storage.documents = {}
         ELSE /\ DOMAIN secure_storage.documents
                   = {"primary_id", "proof_of_address"}
              /\ primary_id_document # None
              /\ proof_of_address_document # None
              /\ secure_storage.documents.primary_id
                   = DocumentAsDict(primary_id_document)
              /\ secure_storage.documents.proof_of_address
                   = DocumentAsDict(proof_of_address_document)

C21_Witness ==
    /\ current_step = "review_and_submit"
    /\ store_failures = 1
    /\ Succeeded(result)
    /\ call.method = "upload_identity_documents"
    /\ secure_storage.documents.primary_id.content_type = "application/pdf"
    /\ secure_storage.documents.proof_of_address.content_type = "image/jpeg"
    /\ primary_id_document.size_bytes = 5242880
    /\ secure_storage.personal_details.date_of_birth
         = <<"2", "0", "5", "0", "-", "1", "2", "-", "2", "5">>


\* C22: at most two calls on an instance return success = True, one
\* submit_personal_details at "personal_details" and then one
\* upload_identity_documents at "id_verification"; and when calls the
\* current step accepts keep being offered, the instance reaches
\* "review_and_submit", whatever invalid or wrong-step calls come between.
C22_Progress ==
    /\ [][(today' = today /\ "instance" \in DOMAIN call'
           /\ Succeeded(result'))
            => LET before == IF call'.instance = 1 THEN current_step
                             ELSE other.current_step
                   after  == IF call'.instance = 1 THEN current_step'
                             ELSE other'.current_step
               IN  \/ /\ call'.method = "submit_personal_details"
                      /\ before = "personal_details"
                      /\ after = "id_verification"
                   \/ /\ call'.method = "upload_identity_documents"
                      /\ before = "id_verification"
                      /\ after = "review_and_submit"]_vars
    /\ [][/\ StepIndex(current_step') >= StepIndex(current_step)
          /\ StepIndex(other'.current_step)
               >= StepIndex(other.current_step)]_vars
    /\ <>[](/\ current_step = "review_and_submit"
            /\ other.current_step = "review_and_submit")

C22_Witness ==
    /\ current_step = "review_and_submit"
    /\ other.current_step = "review_and_submit"
    /\ "instance" \in DOMAIN call
    /\ call.instance = 2
    /\ call.method = "submit_personal_details"
    /\ IsFlowError(result)
    /\ call.today = <<2050, 12, 25>>
    /\ personal_details_data.date_of_birth
         = <<"2", "0", "5", "0", "-", "1", "2", "-", "2", "5">>

====
